---------------------------- MODULE Spec2Model ----------------------------
(***************************************************************************)
(* A model of ubnkparse: a console tool that reads a bank ledger in CSV    *)
(* form, asks for a date range and sums the amounts of the rows in range   *)
(* whose description names a fee.  src/main.go holds two revisions of the  *)
(* program one after the other; the model is of the first, lines 1-271,    *)
(* the one with checkDate and the "c" to continue.                         *)
(*                                                                         *)
(* Text is modelled as a sequence of one-character strings, so that        *)
(* substring search and parsing are computed, not assumed.  A time.Time is *)
(* modelled as the number of days since 0001-01-01: every time the program *)
(* builds is a midnight UTC, so the day number is all Compare reads.       *)
(***************************************************************************)
EXTENDS Integers, Sequences, FiniteSets, TLC

(***************************************************************************)
(* Bounds of the model.                                                    *)
(***************************************************************************)
MaxRows == 3    \* lines after the header line in the input file
MaxArgs == 2    \* command-line arguments

(***************************************************************************)
(* Characters and numbers.                                                 *)
(***************************************************************************)
DigitChars == <<"0", "1", "2", "3", "4", "5", "6", "7", "8", "9">>

IsDigit(c) == \E i \in 1..10 : DigitChars[i] = c

DigitVal(c) == (CHOOSE i \in 1..10 : DigitChars[i] = c) - 1

AllDigits(s) == \A i \in 1..Len(s) : IsDigit(s[i])

RECURSIVE Atoi(_)
Atoi(s) == IF s = <<>> THEN 0
           ELSE Atoi(SubSeq(s, 1, Len(s) - 1)) * 10 + DigitVal(s[Len(s)])

UpperChars == <<"A", "B", "C", "D", "E", "F", "G", "H", "I", "J", "K", "L", "M",
                "N", "O", "P", "Q", "R", "S", "T", "U", "V", "W", "X", "Y", "Z">>
LowerChars == <<"a", "b", "c", "d", "e", "f", "g", "h", "i", "j", "k", "l", "m",
                "n", "o", "p", "q", "r", "s", "t", "u", "v", "w", "x", "y", "z">>

\* time's match() compares letters without regard to case.
Fold(c) == IF \E i \in 1..26 : UpperChars[i] = c
           THEN LowerChars[CHOOSE i \in 1..26 : UpperChars[i] = c]
           ELSE c

FoldAll(s) == [i \in 1..Len(s) |-> Fold(s[i])]

(***************************************************************************)
(* The calendar of package time.                                           *)
(***************************************************************************)
IsLeap(y) == y % 4 = 0 /\ (y % 100 # 0 \/ y % 400 = 0)

\* daysBefore[m]: days of a non-leap year before month m+1.
DaysBeforeTab == <<0, 31, 59, 90, 120, 151, 181, 212, 243, 273, 304, 334, 365>>

DaysIn(m, y) == IF m = 2 /\ IsLeap(y) THEN 29
                ELSE DaysBeforeTab[m + 1] - DaysBeforeTab[m]

\* Days from 0001-01-01 to the first of January of year y.
DaysBeforeYear(y) == 365 * (y - 1) + ((y - 1) \div 4) - ((y - 1) \div 100)
                     + ((y - 1) \div 400)

\* time.Date(year, month, day, 0, 0, 0, 0, UTC): the month is normalised into
\* 1..12 carrying into the year, the day is added as a count and may be 0 or
\* past the month's end.
GoDate(year, month, day) ==
    LET m0 == month - 1
        y  == year + (m0 \div 12)
        m  == (m0 % 12) + 1
    IN  DaysBeforeYear(y) + DaysBeforeTab[m]
        + (IF IsLeap(y) /\ m >= 3 THEN 1 ELSE 0) + (day - 1)

\* Time.Year, Time.Month, Time.Day of a day number.
YearOf(t) == CHOOSE y \in ((t \div 366) + 1)..((t \div 365) + 1) :
                 DaysBeforeYear(y) <= t /\ t < DaysBeforeYear(y + 1)

\* Days of year y before month m.
MonthStart(m, y) == DaysBeforeTab[m] + (IF IsLeap(y) /\ m >= 3 THEN 1 ELSE 0)

MonthOf(t) == LET y == YearOf(t)
                  n == t - DaysBeforeYear(y)
              IN  CHOOSE m \in 1..12 :
                      MonthStart(m, y) <= n /\ n < MonthStart(m, y) + DaysIn(m, y)

DayOf(t) == LET y == YearOf(t)
            IN  t - DaysBeforeYear(y) - MonthStart(MonthOf(t), y) + 1

ZeroTime == 0   \* the zero time.Time, 0001-01-01

(***************************************************************************)
(* time.Parse for the two layouts of the program.                          *)
(***************************************************************************)
MonthNames == << <<"J","a","n">>, <<"F","e","b">>, <<"M","a","r">>, <<"A","p","r">>,
                 <<"M","a","y">>, <<"J","u","n">>, <<"J","u","l">>, <<"A","u","g">>,
                 <<"S","e","p">>, <<"O","c","t">>, <<"N","o","v">>, <<"D","e","c">> >>

ParseFail == [err |-> TRUE, t |-> ZeroTime]

\* time.Parse(dateEntry, s), dateEntry = "2006-01-02".
ParseEntry(s) ==
    IF /\ Len(s) = 10
       /\ s[5] = "-" /\ s[8] = "-"
       /\ AllDigits(SubSeq(s, 1, 4))
       /\ AllDigits(SubSeq(s, 6, 7))
       /\ AllDigits(SubSeq(s, 9, 10))
    THEN LET y == Atoi(SubSeq(s, 1, 4))
             m == Atoi(SubSeq(s, 6, 7))
             d == Atoi(SubSeq(s, 9, 10))
         IN  IF m \in 1..12 /\ d >= 1 /\ d <= DaysIn(m, y)
             THEN [err |-> FALSE, t |-> GoDate(y, m, d)]
             ELSE ParseFail
    ELSE ParseFail

\* time.Parse(dateFormat, s), dateFormat = "02-Jan-06".
ParseFileDate(s) ==
    IF /\ Len(s) = 9
       /\ s[3] = "-" /\ s[7] = "-"
       /\ AllDigits(SubSeq(s, 1, 2))
       /\ AllDigits(SubSeq(s, 8, 9))
       /\ \E m \in 1..12 : FoldAll(MonthNames[m]) = FoldAll(SubSeq(s, 4, 6))
    THEN LET d  == Atoi(SubSeq(s, 1, 2))
             m  == CHOOSE k \in 1..12 :
                       FoldAll(MonthNames[k]) = FoldAll(SubSeq(s, 4, 6))
             yy == Atoi(SubSeq(s, 8, 9))
             y  == IF yy >= 69 THEN 1900 + yy ELSE 2000 + yy
         IN  IF d >= 1 /\ d <= DaysIn(m, y)
             THEN [err |-> FALSE, t |-> GoDate(y, m, d)]
             ELSE ParseFail
    ELSE ParseFail

(***************************************************************************)
(* strconv.ParseFloat(s, 64), for plain decimal text: an optional sign,    *)
(* digits, an optional point and digits, at least one digit.  The value is *)
(* kept in hundredths, which is exact for the inputs of the model (at most *)
(* two digits after the point; no exponent, no "inf", no "nan").           *)
(***************************************************************************)
ParseFloat(s) ==
    LET signed == Len(s) > 0 /\ s[1] \in {"+", "-"}
        body   == IF signed THEN Tail(s) ELSE s
        dots   == {i \in 1..Len(body) : body[i] = "."}
        p      == IF dots = {} THEN Len(body) + 1 ELSE CHOOSE i \in dots : TRUE
        ip     == SubSeq(body, 1, p - 1)
        fp     == SubSeq(body, p + 1, Len(body))
        frac   == IF Len(fp) = 0 THEN 0
                  ELSE IF Len(fp) = 1 THEN Atoi(fp) * 10
                  ELSE Atoi(SubSeq(fp, 1, 2))
        mag    == Atoi(ip) * 100 + frac
    IN  IF /\ Cardinality(dots) <= 1
           /\ AllDigits(ip) /\ AllDigits(fp)
           /\ Len(ip) + Len(fp) >= 1
        THEN [err |-> FALSE, val |-> IF signed /\ s[1] = "-" THEN 0 - mag ELSE mag]
        ELSE [err |-> TRUE, val |-> 0]

(***************************************************************************)
(* The program's constants (lines 23-41) and helpers (lines 169-187).      *)
(***************************************************************************)
dateField == "Date Trx"
descField == "Description"
amntField == "Debit"

feeList == << <<"c","o","m","m","i","s",".">>,
              <<"f","r","a","i","s">>,
              <<"t","a","x","e","s">>,
              <<"t","i","m","b","r","e">>,
              <<"c","o","m","m","i","s","s","i","o","n","s">> >>

\* strings.Contains(s, sub)
Contains(s, sub) ==
    \E i \in 0..(Len(s) - Len(sub)) : SubSeq(s, i + 1, i + Len(sub)) = sub

containsFee(desc) == \E k \in 1..Len(feeList) : Contains(desc, feeList[k])

\* The index, counted from 0, of the first field equal to seek; -1 if none.
getindex(row, seek) ==
    IF \E i \in 1..Len(row) : row[i] = seek
    THEN (CHOOSE i \in 1..Len(row) :
              row[i] = seek /\ \A j \in 1..(i - 1) : row[j] # seek) - 1
    ELSE -1

(***************************************************************************)
(* The inputs the model draws from.                                        *)
(***************************************************************************)
Digits2(n) == <<DigitChars[((n \div 10) % 10) + 1], DigitChars[(n % 10) + 1]>>

\* The text "YYYY-MM-DD" of three numbers, valid as a date or not.
EntryText(y, m, d) ==
    Digits2(y \div 100) \o Digits2(y % 100) \o <<"-">> \o Digits2(m)
    \o <<"-">> \o Digits2(d)

\* The text "DD-Mon-YY" of a ledger date, valid as a date or not.
LedgerText(d, m, yy) ==
    Digits2(d) \o <<"-">> \o MonthNames[m] \o <<"-">> \o Digits2(yy)

TokQ == <<"q">>
TokM == <<"m">>
EmptyLine == <<>>

\* Lines typed at the beginning-date prompt.
StartEntries == { EntryText(2023, 7, 1), EntryText(2023, 7, 16),
                  EntryText(2023, 2, 30), TokQ, EmptyLine }

\* Lines typed at the ending-date prompt.
EndEntries == { TokQ, TokM, EntryText(2023, 7, 10),
                <<"2","0","2","3","-","7","-","1","0">>, EmptyLine }

\* Lines typed at the continue-or-exit prompt.
KeyEntries == { <<"c">>, <<"x">>, EmptyLine }

\* Every "YYYY-MM-DD" text with a month in 1..12 and a day in 1..31, over years
\* that are common, leap, and a century that is not leap.
CalendarYears == {2023, 2024, 2100}
CalendarEntries ==
    { EntryText(y, m, d) : y \in CalendarYears, m \in 1..12, d \in 1..31 }

\* The rows of a ledger, by column name: a fee on the 15th, a row whose
\* description differs from a keyword by case and whose amount is no number,
\* a tax with a decimal amount, a fee whose amount is no number, and a fee
\* dated the 31st of June.
RowFee      == [date |-> LedgerText(15, 7, 23),
                desc |-> <<"f","r","a","i","s"," ","t","i","m","b","r","e">>,
                amnt |-> <<"-","2">>]
RowOther    == [date |-> LedgerText(1, 7, 23),
                desc |-> <<"F","r","a","i","s">>,
                amnt |-> <<"n","/","a">>]
RowTax      == [date |-> LedgerText(20, 7, 23),
                desc |-> <<"t","a","x","e","s">>,
                amnt |-> <<"-","5",".","5","0">>]
RowBadAmnt  == [date |-> LedgerText(5, 7, 23),
                desc |-> <<"c","o","m","m","i","s","s","i","o","n","s">>,
                amnt |-> <<"x">>]
RowBadDate  == [date |-> LedgerText(31, 6, 23),
                desc |-> <<"f","r","a","i","s">>,
                amnt |-> <<"7">>]

LedgerRows == {RowFee, RowOther, RowTax, RowBadAmnt, RowBadDate}

\* The header lines: the export's, one with the columns moved and one more, and
\* one without the amount column.
Headers == { <<dateField, descField, amntField>>,
             <<amntField, "Credit", descField, dateField>>,
             <<dateField, descField>> }

\* A line of the file: a record of fields, or text encoding/csv cannot parse.
BadLine == [bad |-> TRUE, fields |-> <<>>]

RecordLine(f) == [bad |-> FALSE, fields |-> f]

\* The record of ledger row r under header h.
RowLine(h, r) ==
    RecordLine([i \in 1..Len(h) |->
                   IF h[i] = dateField THEN r.date
                   ELSE IF h[i] = descField THEN r.desc
                   ELSE IF h[i] = amntField THEN r.amnt
                   ELSE <<>>])

SeqsUpTo(S, n) == UNION { [1..k -> S] : k \in 0..n }

\* The files: no line at all, a first line that does not parse, or a header
\* and up to MaxRows lines, each a ledger row or a line that does not parse.
FilesWith(h) ==
    { <<RecordLine(h)>> \o body :
        body \in SeqsUpTo({ RowLine(h, r) : r \in LedgerRows } \cup {BadLine},
                          MaxRows) }

Files == { <<>>, <<BadLine>> } \cup UNION { FilesWith(h) : h \in Headers }

(***************************************************************************)
(* The state.  argct, fileExists and fileLines are the program's           *)
(* surroundings: the number of arguments and the file they name.  pc is    *)
(* the place the program is at: a prompt it blocks on, or the code between *)
(* two prompts.  The other variables are the locals of process, getDates   *)
(* and checkDate, and what the program has printed in the current run.     *)
(***************************************************************************)
VARIABLES
    argct,         \* len(os.Args[1:])
    fileExists,    \* whether os.Open of an argument succeeds
    fileLines,     \* the lines of the file the arguments name
    argIdx,        \* the argument the loop of main is at, from 1
    pc,
    openHandles,   \* files opened and not closed
    lastLine,      \* the line last read from the console
    readPos,       \* lines the csv reader has consumed
    header, colDate, colDesc, colAmnt,
    data,          \* what reader.ReadAll returned
    readErr,       \* ReadAll returned an error in this run
    emptyLogged,   \* "File appears to be empty." was logged in this run
    cdUsrDate,     \* usrDate of checkDate
    usrDate,       \* usrDate of getDates
    date1, mDate, qDate, date2,
    prompted,      \* getDates has asked for dates in this run
    rest,          \* the rows the range loop has still to visit
    currLnNo, runningTotal,
    visited,       \* the rows visited, by their place among the lines after the header
    totalPrinted,  \* the "Processed" and "TOTAL:" lines were printed in this run
    outProcessed,  \* the number in the "Processed N lines" line
    outTotal       \* the number in the "TOTAL:" line, in hundredths

envVars  == <<argct, fileExists, fileLines>>
loadVars == <<readPos, header, colDate, colDesc, colAmnt, data, readErr, emptyLogged>>
dateVars == <<cdUsrDate, usrDate, date1, mDate, qDate, date2, prompted>>
loopVars == <<rest, currLnNo, runningTotal, visited>>
outVars  == <<totalPrinted, outProcessed, outTotal>>
vars == <<envVars, argIdx, pc, openHandles, lastLine,
          loadVars, dateVars, loopVars, outVars>>

NoDate == -1    \* a time.Time variable not assigned yet

\* The locals of a call of process, as the call begins.
FreshLocals ==
    /\ readPos' = 0
    /\ header' = <<>> /\ colDate' = -1 /\ colDesc' = -1 /\ colAmnt' = -1
    /\ data' = <<>>
    /\ readErr' = FALSE /\ emptyLogged' = FALSE
    /\ cdUsrDate' = <<>> /\ usrDate' = <<>>
    /\ date1' = NoDate /\ mDate' = NoDate /\ qDate' = NoDate /\ date2' = NoDate
    /\ prompted' = FALSE
    /\ rest' = <<>> /\ currLnNo' = 0 /\ runningTotal' = 0 /\ visited' = <<>>
    /\ totalPrinted' = FALSE /\ outProcessed' = 0 /\ outTotal' = 0

InitLocals ==
    /\ readPos = 0
    /\ header = <<>> /\ colDate = -1 /\ colDesc = -1 /\ colAmnt = -1
    /\ data = <<>>
    /\ readErr = FALSE /\ emptyLogged = FALSE
    /\ cdUsrDate = <<>> /\ usrDate = <<>>
    /\ date1 = NoDate /\ mDate = NoDate /\ qDate = NoDate /\ date2 = NoDate
    /\ prompted = FALSE
    /\ rest = <<>> /\ currLnNo = 0 /\ runningTotal = 0 /\ visited = <<>>
    /\ totalPrinted = FALSE /\ outProcessed = 0 /\ outTotal = 0

Init ==
    /\ argct \in 0..MaxArgs
    /\ fileExists \in (IF argct = 0 THEN {FALSE} ELSE BOOLEAN)
    /\ fileLines \in (IF fileExists THEN Files ELSE {<<>>})
    /\ argIdx = 0
    /\ pc = "main"
    /\ openHandles = 0
    /\ lastLine = <<>>
    /\ InitLocals

(***************************************************************************)
(* main, lines 43-72.                                                      *)
(***************************************************************************)
\* Which place main goes to once the switch on argct is over (line 63): the
\* range loop over args calls process on the first argument, if there is one.
EnterLoop(n) == IF n >= 1 THEN "open" ELSE "exit"

\* Lines 45-61 up to the first blocking read: with no argument or several,
\* guidance is printed and end() waits for a line.
Main ==
    /\ pc = "main"
    /\ IF argct < 1 \/ argct > 1
       THEN pc' = "usageEnd" /\ argIdx' = argIdx
       ELSE pc' = EnterLoop(argct) /\ argIdx' = 1
    /\ UNCHANGED <<envVars, openHandles, lastLine, loadVars, dateVars,
                   loopVars, outVars>>

\* end() returns (line 192) and main goes on to its loop (line 63).
UsageAck(key) ==
    /\ pc = "usageEnd"
    /\ lastLine' = key
    /\ pc' = EnterLoop(argct)
    /\ argIdx' = IF argct >= 1 THEN 1 ELSE argIdx
    /\ UNCHANGED <<envVars, openHandles, loadVars, dateVars, loopVars, outVars>>

(***************************************************************************)
(* process, lines 74-167.                                                  *)
(***************************************************************************)
\* defer file.Close() (line 79): what is open once the deferred call has run,
\* when process returns and when it panics.
MutCloseOnReturnOnly(h, panicking) == IF panicking THEN h ELSE h - 1

CloseDeferred(h, panicking) == h - 1

\* Lines 75-83.
ProcessOpen ==
    /\ pc = "open"
    /\ FreshLocals
    /\ IF fileExists
       THEN pc' = "readHeader" /\ openHandles' = openHandles + 1
       ELSE pc' = "panicked" /\ openHandles' = openHandles
    /\ UNCHANGED <<envVars, argIdx, lastLine>>

\* Lines 86-96.
ReadHeader ==
    /\ pc = "readHeader"
    /\ IF fileLines = <<>>
       THEN /\ emptyLogged' = TRUE
            /\ header' = <<>> /\ readPos' = 0
            /\ colDate' = getindex(<<>>, dateField)
            /\ colDesc' = getindex(<<>>, descField)
            /\ colAmnt' = getindex(<<>>, amntField)
            /\ pc' = "readAll" /\ openHandles' = openHandles
       ELSE IF fileLines[1].bad
       THEN /\ pc' = "panicked"
            /\ openHandles' = CloseDeferred(openHandles, TRUE)
            /\ UNCHANGED <<emptyLogged, header, readPos, colDate, colDesc, colAmnt>>
       ELSE /\ header' = fileLines[1].fields /\ readPos' = 1
            /\ colDate' = getindex(fileLines[1].fields, dateField)
            /\ colDesc' = getindex(fileLines[1].fields, descField)
            /\ colAmnt' = getindex(fileLines[1].fields, amntField)
            /\ pc' = "readAll" /\ openHandles' = openHandles
            /\ UNCHANGED emptyLogged
    /\ UNCHANGED <<envVars, argIdx, lastLine, data, readErr, dateVars,
                   loopVars, outVars>>

\* Lines 99-106 up to the next blocking read: end() after a read error, the
\* beginning-date prompt of getDates otherwise.
ReadAll ==
    /\ pc = "readAll"
    /\ \E left \in {SubSeq(fileLines, readPos + 1, Len(fileLines))} :
           IF \E i \in 1..Len(left) : left[i].bad
           THEN /\ data' = <<>> /\ readErr' = TRUE
                /\ pc' = "readErrEnd" /\ prompted' = prompted
           ELSE /\ data' = [i \in 1..Len(left) |-> left[i].fields]
                /\ readErr' = FALSE
                /\ pc' = "checkDate" /\ prompted' = TRUE
    /\ readPos' = Len(fileLines)
    /\ UNCHANGED <<envVars, argIdx, openHandles, lastLine, header, colDate,
                   colDesc, colAmnt, emptyLogged, cdUsrDate, usrDate, date1,
                   mDate, qDate, date2, loopVars, outVars>>

\* end() returns (line 192) and process goes on to getDates (line 106).
ReadErrAck(key) ==
    /\ pc = "readErrEnd"
    /\ lastLine' = key
    /\ pc' = "checkDate" /\ prompted' = TRUE
    /\ UNCHANGED <<envVars, argIdx, openHandles, loadVars, cdUsrDate, usrDate,
                   date1, mDate, qDate, date2, loopVars, outVars>>

(***************************************************************************)
(* getDates and checkDate, lines 195-260.                                  *)
(***************************************************************************)
\* fmt.Scanln(&s): an empty line is an error that leaves s as it was.
Scanln(old, line) == IF line = <<>> THEN old ELSE line

\* Line 202: the last day of the month of t, as day 0 of the month after.
MutMonthEndDay31(t) == GoDate(YearOf(t), MonthOf(t), 31)

MonthEnd(t) == GoDate(YearOf(t), MonthOf(t) + 1, 0)

\* Lines 203-209.
QuinzaineEnd(t) == IF DayOf(t) <= 15 THEN GoDate(YearOf(t), MonthOf(t), 15)
                   ELSE MonthEnd(t)

\* What checkDate does with the text it has read (lines 250-257): the parse,
\* whose error sends it round the loop again.
MutCheckDateIgnoreErr(s) == [err |-> FALSE, t |-> ParseEntry(s).t]

CheckDateParse(s) == ParseEntry(s)

\* One turn of the loop of checkDate (lines 247-258); on a date that parses,
\* checkDate returns and getDates runs up to its own first read (199-217).
CheckDate(line) ==
    /\ pc = "checkDate"
    /\ lastLine' = line
    /\ cdUsrDate' = Scanln(cdUsrDate, line)
    /\ \E r \in {CheckDateParse(Scanln(cdUsrDate, line))} :
           IF r.err
           THEN /\ pc' = "checkDate"
                /\ UNCHANGED <<date1, mDate, qDate>>
           ELSE /\ pc' = "endDate"
                /\ date1' = r.t
                /\ mDate' = MonthEnd(r.t)
                /\ qDate' = QuinzaineEnd(r.t)
    /\ UNCHANGED <<envVars, argIdx, openHandles, loadVars, usrDate, date2,
                   prompted, loopVars, outVars>>

\* What one turn of the loop of getDates makes of the text read (219-236).
EndDateChoice(s, q, m) ==
    IF s = TokQ THEN [err |-> FALSE, t |-> q]
    ELSE IF s = TokM THEN [err |-> FALSE, t |-> m]
    ELSE ParseEntry(s)

\* One turn of the loop of getDates (lines 216-237); getDates returns (239)
\* when the turn chose a date.
EndDate(line) ==
    /\ pc = "endDate"
    /\ lastLine' = line
    /\ usrDate' = Scanln(usrDate, line)
    /\ \E r \in {EndDateChoice(Scanln(usrDate, line), qDate, mDate)} :
           IF r.err
           THEN pc' = "endDate" /\ date2' = date2
           ELSE pc' = "beginLoop" /\ date2' = r.t
    /\ UNCHANGED <<envVars, argIdx, openHandles, loadVars, cdUsrDate, date1,
                   mDate, qDate, prompted, loopVars, outVars>>

(***************************************************************************)
(* The loop of process over the rows, lines 107-154.                       *)
(***************************************************************************)
\* Lines 107-111: the slice expression data[1:] panics on an empty data.
BeginLoop ==
    /\ pc = "beginLoop"
    /\ runningTotal' = 0 /\ currLnNo' = 0
    /\ IF Len(data) < 1
       THEN /\ pc' = "panicked"
            /\ openHandles' = CloseDeferred(openHandles, TRUE)
            /\ rest' = rest
       ELSE /\ pc' = "loop"
            /\ openHandles' = openHandles
            /\ rest' = SubSeq(data, 2, Len(data))
    /\ UNCHANGED <<envVars, argIdx, lastLine, loadVars, dateVars, visited, outVars>>

\* row[col]: an index out of range panics.
InRange(row, col) == col >= 0 /\ col < Len(row)

\* Lines 122-143 for one row: whether the row panics, and what it adds to the
\* running total.
ProcessLine(row, cDate, cDesc, cAmnt, d1, d2) ==
    LET Abort   == [abort |-> TRUE, add |-> 0]
        Skip    == [abort |-> FALSE, add |-> 0]
    IN  IF ~InRange(row, cDate) THEN Abort
        ELSE LET pd == ParseFileDate(row[cDate + 1])
             IN  IF pd.err THEN Abort
                 ELSE IF pd.t >= d1 /\ pd.t <= d2
                 THEN IF ~InRange(row, cDesc) THEN Abort
                      ELSE IF containsFee(row[cDesc + 1])
                      THEN IF ~InRange(row, cAmnt) THEN Abort
                           ELSE LET pa == ParseFloat(row[cAmnt + 1])
                                IN  IF pa.err THEN Abort
                                    ELSE [abort |-> FALSE, add |-> pa.val]
                      ELSE Skip
                 ELSE Skip

\* One turn of the range loop, lines 111-144.
RowStep ==
    /\ pc = "loop"
    /\ rest # <<>>
    /\ currLnNo' = currLnNo + 1
    /\ visited' = Append(visited, Len(data) - Len(rest) + 1)
    /\ \E r \in {ProcessLine(Head(rest), colDate, colDesc, colAmnt, date1, date2)} :
           IF r.abort
           THEN /\ pc' = "panicked"
                /\ openHandles' = CloseDeferred(openHandles, TRUE)
                /\ UNCHANGED <<rest, runningTotal>>
           ELSE /\ pc' = "loop"
                /\ openHandles' = openHandles
                /\ rest' = Tail(rest)
                /\ runningTotal' = runningTotal + r.add
    /\ UNCHANGED <<envVars, argIdx, lastLine, loadVars, dateVars, outVars>>

\* Lines 145-156: the count and the total are printed, then the program asks
\* whether to continue.
Report ==
    /\ pc = "loop"
    /\ rest = <<>>
    /\ totalPrinted' = TRUE
    /\ outProcessed' = currLnNo
    /\ outTotal' = runningTotal
    /\ pc' = "askKey"
    /\ UNCHANGED <<envVars, argIdx, openHandles, lastLine, loadVars, dateVars,
                   loopVars>>

\* Lines 157-166, and the loops of main (lines 63-71): "c" runs process again
\* on the same file, any other line goes on to the next argument.
AskKey(key) ==
    /\ pc = "askKey"
    /\ lastLine' = key
    /\ openHandles' = CloseDeferred(openHandles, FALSE)
    /\ IF key = <<"c">>
       THEN pc' = "open" /\ argIdx' = argIdx
       ELSE IF argIdx < argct
       THEN pc' = "open" /\ argIdx' = argIdx + 1
       ELSE pc' = "exit" /\ argIdx' = argIdx
    /\ UNCHANGED <<envVars, loadVars, dateVars, loopVars, outVars>>

Next ==
    \/ Main
    \/ \E key \in KeyEntries : UsageAck(key)
    \/ ProcessOpen
    \/ ReadHeader
    \/ ReadAll
    \/ \E key \in KeyEntries : ReadErrAck(key)
    \/ \E line \in StartEntries : CheckDate(line)
    \/ \E line \in EndEntries : EndDate(line)
    \/ BeginLoop
    \/ RowStep
    \/ Report
    \/ \E key \in KeyEntries : AskKey(key)

Spec == Init /\ [][Next]_vars

(***************************************************************************)
(* The date range resolver over the whole calendar: one well-formed file,  *)
(* one argument, and at the beginning-date prompt every day text of        *)
(* CalendarEntries.                                                        *)
(***************************************************************************)
SampleHeader == <<dateField, descField, amntField>>

SampleFile == << RecordLine(SampleHeader), RowLine(SampleHeader, RowOther),
                 RowLine(SampleHeader, RowFee), RowLine(SampleHeader, RowTax) >>

InitDates ==
    /\ argct = 1
    /\ fileExists = TRUE
    /\ fileLines = SampleFile
    /\ argIdx = 0
    /\ pc = "main"
    /\ openHandles = 0
    /\ lastLine = <<>>
    /\ InitLocals

NextDates ==
    \/ Main
    \/ ProcessOpen
    \/ ReadHeader
    \/ ReadAll
    \/ \E line \in CalendarEntries \cup {EmptyLine} : CheckDate(line)
    \/ \E line \in EndEntries : EndDate(line)
    \/ BeginLoop
    \/ RowStep
    \/ Report
    \/ \E key \in KeyEntries : AskKey(key)

SpecDates == InitDates /\ [][NextDates]_vars

(***************************************************************************)
(* What the claims speak of, read off the file and the console rather than *)
(* off the program's own variables.                                        *)
(***************************************************************************)
\* The file has a header line that parses.
HasHeader == fileLines # <<>> /\ ~fileLines[1].bad

\* The places, from 2, of the lines after the header: the data rows.
DataPlaces == 2..Len(fileLines)

\* The field of line i under the column the header names `name`; the empty
\* text if the header or the line has no such column.
FieldOf(i, name) ==
    LET h == fileLines[1].fields
        k == CHOOSE j \in 1..Len(h) : h[j] = name
    IN  IF (\E j \in 1..Len(h) : h[j] = name) /\ k <= Len(fileLines[i].fields)
        THEN fileLines[i].fields[k]
        ELSE <<>>

\* Data row i has a date of the ledger's format inside [date1, date2] and a
\* description containing a fee keyword.
RowMatches(i) ==
    /\ ~fileLines[i].bad
    /\ ~ParseFileDate(FieldOf(i, dateField)).err
    /\ ParseFileDate(FieldOf(i, dateField)).t >= date1
    /\ ParseFileDate(FieldOf(i, dateField)).t <= date2
    /\ \E k \in 1..Len(feeList) : Contains(FieldOf(i, descField), feeList[k])

\* The sum of the amounts of the matching rows among lines 2..n.
RECURSIVE SumMatching(_)
SumMatching(n) ==
    IF n < 2 THEN 0
    ELSE SumMatching(n - 1)
         + (IF RowMatches(n) THEN ParseFloat(FieldOf(n, amntField)).val ELSE 0)

\* The day number of a calendar date, by the civil-calendar algorithm that
\* counts in eras of 400 years from the first of March.
ReferenceDay(y, m, d) ==
    LET yy  == IF m <= 2 THEN y - 1 ELSE y
        era == yy \div 400
        yoe == yy - era * 400
        mp  == IF m > 2 THEN m - 3 ELSE m + 9
        doy == ((153 * mp + 2) \div 5) + d - 1
        doe == yoe * 365 + (yoe \div 4) - (yoe \div 100) + doy
    IN  era * 146097 + doe - 306

\* Thirty days hath September.
CalendarLastDay(m, y) ==
    IF m \in {4, 6, 9, 11} THEN 30
    ELSE IF m # 2 THEN 31
    ELSE IF y % 400 = 0 \/ (y % 4 = 0 /\ y % 100 # 0) THEN 29
    ELSE 28

\* C1: the total reported at the end of a run is the sum of the amounts of
\* exactly the data rows whose date is in [start, end] and whose description
\* contains a fee keyword.
C1_TotalIsSumOfMatchingRows ==
    totalPrinted => outTotal = SumMatching(Len(fileLines))

\* C2: only the header is left out of the iteration: every data row is visited
\* once, in order, and the "Processed N lines" count is the number of data
\* rows.
C2_EveryDataRowVisited ==
    totalPrinted =>
        /\ outProcessed = Len(fileLines) - 1
        /\ visited = [i \in 1..(Len(fileLines) - 1) |-> i]

\* C3: a data row, at any place after the header, whose date does not parse in
\* the ledger's format aborts the run: no total is printed in that run.
C3_BadDateNeverTotals ==
    (HasHeader /\ \E i \in DataPlaces :
         ~fileLines[i].bad /\ ParseFileDate(FieldOf(i, dateField)).err)
    => ~totalPrinted

\* C4: on a file with no line at all and on a file with only a header the run
\* does not abort.
C4_EmptyFileRunCompletes ==
    (fileExists /\ (fileLines = <<>> \/ (Len(fileLines) = 1 /\ HasHeader)))
    => pc # "panicked"

\* C5: once ReadAll has returned an error, the run never asks for dates, never
\* visits a row and never prints a total.
C5_ReadErrorEndsRun ==
    readErr => /\ ~prompted
               /\ pc \notin {"checkDate", "endDate", "beginLoop", "loop", "askKey"}
               /\ ~totalPrinted

\* C6: with no argument or with more than one, main never opens or processes a
\* file: process runs only when exactly one argument was given.
C6_ProcessOnlyWithOneArgument ==
    argct # 1 => pc \in {"main", "usageEnd", "exit"} /\ openHandles = 0

\* C7: for every valid start date (Y, M, D), the month-end candidate is the
\* last calendar day of month M of year Y, "m" chooses it as the end date, and
\* "q" chooses (Y, M, 15) when D <= 15.
C7_ShortcutEndDates ==
    date1 # NoDate =>
        LET Y == Atoi(SubSeq(cdUsrDate, 1, 4))
            M == Atoi(SubSeq(cdUsrDate, 6, 7))
            D == Atoi(SubSeq(cdUsrDate, 9, 10))
        IN  /\ D <= CalendarLastDay(M, Y)
            /\ date1 = ReferenceDay(Y, M, D)
            /\ mDate = ReferenceDay(Y, M, CalendarLastDay(M, Y))
            /\ (date2 # NoDate /\ usrDate = TokM
                   => date2 = ReferenceDay(Y, M, CalendarLastDay(M, Y)))
            /\ (date2 # NoDate /\ usrDate = TokQ /\ D <= 15
                   => date2 = ReferenceDay(Y, M, 15))

\* "m" was entered after a start date in February of a leap year and chose the
\* 29th.
C7_Witness ==
    /\ cdUsrDate = EntryText(2024, 2, 10)
    /\ usrDate = TokM
    /\ date2 = ReferenceDay(2024, 2, 29)
    /\ YearOf(date2) = 2024 /\ MonthOf(date2) = 2 /\ DayOf(date2) = 29

\* C8: at either date prompt a line that is no valid entry leads only to the
\* same prompt with no date chosen and is never fatal, and the prompt is left
\* exactly on the first valid entry, with that entry's value.
C8_RePromptUntilValid ==
    [][ /\ pc = "checkDate" =>
              IF ParseEntry(lastLine').err
              THEN pc' = "checkDate" /\ date1' = NoDate
              ELSE pc' = "endDate" /\ date1' = ParseEntry(lastLine').t
        /\ pc = "endDate" =>
              IF lastLine' = TokQ THEN pc' = "beginLoop" /\ date2' = qDate
              ELSE IF lastLine' = TokM THEN pc' = "beginLoop" /\ date2' = mDate
              ELSE IF ParseEntry(lastLine').err
              THEN pc' = "endDate" /\ date2' = NoDate
              ELSE pc' = "beginLoop" /\ date2' = ParseEntry(lastLine').t ]_vars

\* An invalid line, then an empty line, were entered at the ending-date prompt
\* after a start date was accepted, and the program is still at the prompt.
C8_Witness ==
    /\ pc = "endDate"
    /\ date1 # NoDate
    /\ usrDate # <<>> /\ ParseEntry(usrDate).err /\ usrDate \notin {TokQ, TokM}
    /\ lastLine = EmptyLine
    /\ date2 = NoDate

\* C9: the file handle of a run is released on every way out of the run, so at
\* most one handle is open at any time, none between two runs and none once
\* the program has ended.
C9_HandleReleased ==
    /\ openHandles \in {0, 1}
    /\ pc \in {"main", "usageEnd", "open", "exit", "panicked"} => openHandles = 0

\* A run was aborted by a row after its file was opened, and nothing is open.
C9_Witness ==
    pc = "panicked" /\ visited # <<>> /\ openHandles = 0

\* C10: an amount that is no number, on a data row in range with a fee
\* keyword, aborts the run: no total is printed in that run.
C10_BadAmountOnMatchingRowAborts ==
    (HasHeader /\ date2 # NoDate /\ \E i \in DataPlaces :
         /\ RowMatches(i)
         /\ FieldOf(i, amntField) # <<>>
         /\ ParseFloat(FieldOf(i, amntField)).err)
    => ~totalPrinted

=============================================================================
